---- MODULE Spec2Model ----
(***************************************************************************)
(* gotags: etags-style tag generation for Go (computeTags and the three    *)
(* extractors goTags, builtinEtags and systemEtags).                       *)
(*                                                                         *)
(* A byte string is a sequence of one-character strings; the control bytes *)
(* are written by name (FF, LF, DEL, SOH, TAB).  The diagnostics written   *)
(* to standard error (package log, quiet, verbose) are kept in logged.     *)
(***************************************************************************)
EXTENDS Integers, Sequences, FiniteSets, TLC

VARIABLES
    optsErr,             \* whether utils.GetOpts rejected the command line
    help,                \* -h
    version,             \* -V
    quiet,               \* -q
    verbose,             \* -v
    outname,             \* -o; "-" is standard output
    inputFilenames,      \* the names collected from the command line
    stdin,               \* the bytes piped into standard input
    outFile,             \* what has happened to the file called outname
    previous,            \* what the preceding call of computeTags in this process wrote
    inputs,              \* the filename sequence handed to computeTags
    unreadable,          \* the names os.ReadFile fails on
    etagsStderr,         \* what the delegate program writes to its standard error
    members,             \* --no-members clears it
    systemEtagsCommand,  \* --etags; the empty string disables delegation
    pc,                  \* position of the run inside computeTags / systemEtags
    idx,                 \* index in inputs of the name the range loop is at
    unhandledFiles,      \* computeTags' batch of non-.go names
    output,              \* the bytes written to the output sink so far
    fset,                \* the global token.FileSet
    inputText,           \* computeTags' inputText for the current file
    parsed,              \* result of parser.ParseFile for the current file
    cmd,                 \* the delegate subprocess (exec.Cmd)
    exitStatus,          \* process exit status, NoExit while running
    logged,              \* the diagnostics written to standard error, in order
    calls                \* history: the calls made so far, in order

\* the command line as main sees it, and the piped input
cmdLine == <<optsErr, help, version, quiet, verbose, outname, inputFilenames, stdin>>

vars == <<cmdLine, outFile, previous, inputs, unreadable, etagsStderr, members,
          systemEtagsCommand, pc, idx, unhandledFiles, output, fset, inputText, parsed,
          cmd, exitStatus, logged, calls>>

----------------------------------------------------------------------------
(* Bounds *)

MaxInputs == 3

\* the longest command line (of input names) main is started with
MaxArgs == 2

\* the longest name sequence of the runs whose diagnostics are followed
MaxLogInputs == 2

----------------------------------------------------------------------------
(* Bytes *)

FF  == "FF"
LF  == "LF"
DEL == "DEL"
SOH == "SOH"
TAB == "TAB"
CR  == "CR"

Digits  == {"0", "1", "2", "3", "4", "5", "6", "7", "8", "9"}

DigitOf(d) == CASE d = 0 -> "0" [] d = 1 -> "1" [] d = 2 -> "2" [] d = 3 -> "3"
                [] d = 4 -> "4" [] d = 5 -> "5" [] d = 6 -> "6" [] d = 7 -> "7"
                [] d = 8 -> "8" [] d = 9 -> "9"

\* fmt's %d verb for a non-negative int
RECURSIVE Itoa(_)
Itoa(n) == IF n < 10 THEN <<DigitOf(n)>> ELSE Itoa(n \div 10) \o <<DigitOf(n % 10)>>

ValueOf(c) == CHOOSE d \in 0..9 : DigitOf(d) = c

RECURSIVE Atoi(_)
Atoi(ds) == IF Len(ds) = 1 THEN ValueOf(ds[1])
            ELSE 10 * Atoi(SubSeq(ds, 1, Len(ds) - 1)) + ValueOf(ds[Len(ds)])

IsPrefix(p, s) == Len(p) <= Len(s) /\ SubSeq(s, 1, Len(p)) = p
IsSuffix(p, s) == Len(p) <= Len(s) /\ SubSeq(s, Len(s) - Len(p) + 1, Len(s)) = p

RECURSIVE Flatten(_)
Flatten(ss) == IF ss = <<>> THEN <<>> ELSE Head(ss) \o Flatten(Tail(ss))

----------------------------------------------------------------------------
(* File names and path.Ext *)

aGoName == <<"a", ".", "g", "o">>
bGoName == <<"b", ".", "g", "o">>
cGoName == <<"c", ".", "g", "o">>
tCName  == <<"t", ".", "c">>
dirName == <<"d", ".", "g", "o", "/", "x">>

Names == {aGoName, bGoName, cGoName, tCName, dirName}

\* path.Ext: the suffix from the final dot of the final slash-separated element
RECURSIVE ExtFrom(_, _)
ExtFrom(p, i) ==
    IF i < 1 \/ p[i] = "/" THEN <<>>
    ELSE IF p[i] = "." THEN SubSeq(p, i, Len(p))
    ELSE ExtFrom(p, i - 1)

Ext(p) == ExtFrom(p, Len(p))

goExt == <<".", "g", "o">>

----------------------------------------------------------------------------
(* The files on disk.  a.go and c.go are well-formed Go in the style of    *)
(* testdata/t1.go; b.go is rejected by go/parser (a stray closing brace).  *)

\* package  m
\*  type t4[T any] int
\* type (
\* 	t2 struct {
\* 		x, y int
\* 		n struct { z int }
\* 		p *struct { q int }
\* 		E
\* 	}
\* 	i1 interface {
\* 		f1()
\* 		E
\* 	}
\* )
aGoText ==
    <<"p", "a", "c", "k", "a", "g", "e", " ", " ", "m", LF>> \o
    <<" ", "t", "y", "p", "e", " ", "t", "4", "[", "T", " ", "a", "n", "y", "]", " ", "i", "n", "t", LF>> \o
    <<"t", "y", "p", "e", " ", "(", LF>> \o
    <<TAB, "t", "2", " ", "s", "t", "r", "u", "c", "t", " ", "{", LF>> \o
    <<TAB, TAB, "x", ",", " ", "y", " ", "i", "n", "t", LF>> \o
    <<TAB, TAB, "n", " ", "s", "t", "r", "u", "c", "t", " ", "{", " ", "z", " ", "i", "n", "t", " ", "}", LF>> \o
    <<TAB, TAB, "p", " ", "*", "s", "t", "r", "u", "c", "t", " ", "{", " ", "q", " ", "i", "n", "t", " ", "}", LF>> \o
    <<TAB, TAB, "E", LF>> \o
    <<TAB, "}", LF>> \o
    <<TAB, "i", "1", " ", "i", "n", "t", "e", "r", "f", "a", "c", "e", " ", "{", LF>> \o
    <<TAB, TAB, "f", "1", "(", ")", LF>> \o
    <<TAB, TAB, "E", LF>> \o
    <<TAB, "}", LF>> \o
    <<")", LF>>

\* package p
\* var v4, v5 int
\* const c1 = 5; var s struct { f int }
\* func (r *t) m1() {
\* 	var lv int
\* }
\* func m_2() {}
\* const (
\* 	c2, c3 = 1, 2
\* )
\* //line y.go:40
\* var w1, /*line y.go:7*/ w2 int
cGoText ==
    <<"p", "a", "c", "k", "a", "g", "e", " ", "p", LF>> \o
    <<"v", "a", "r", " ", "v", "4", ",", " ", "v", "5", " ", "i", "n", "t", LF>> \o
    <<"c", "o", "n", "s", "t", " ", "c", "1", " ", "=", " ", "5", ";", " ", "v", "a", "r", " ", "s", " ", "s", "t", "r", "u", "c", "t", " ", "{", " ", "f", " ", "i", "n", "t", " ", "}", LF>> \o
    <<"f", "u", "n", "c", " ", "(", "r", " ", "*", "t", ")", " ", "m", "1", "(", ")", " ", "{", LF>> \o
    <<TAB, "v", "a", "r", " ", "l", "v", " ", "i", "n", "t", LF>> \o
    <<"}", LF>> \o
    <<"f", "u", "n", "c", " ", "m", "_", "2", "(", ")", " ", "{", "}", LF>> \o
    <<"c", "o", "n", "s", "t", " ", "(", LF>> \o
    <<TAB, "c", "2", ",", " ", "c", "3", " ", "=", " ", "1", ",", " ", "2", LF>> \o
    <<")", LF>> \o
    <<"/", "/", "l", "i", "n", "e", " ", "y", ".", "g", "o", ":", "4", "0", LF>> \o
    <<"v", "a", "r", " ", "w", "1", ",", " ", "/", "*", "l", "i", "n", "e", " ", "y", ".", "g", "o", ":", "7", "*", "/", " ", "w", "2", " ", "i", "n", "t">>

\* package b
\* func (r *t) m1() {
\*  var x int
\* var v4, v5 int
\* type my_t int
\* var _u int
\* func  f2[T any]() {}
\* }}
bGoText ==
    <<"p", "a", "c", "k", "a", "g", "e", " ", "b", LF>> \o
    <<"f", "u", "n", "c", " ", "(", "r", " ", "*", "t", ")", " ", "m", "1", "(", ")", " ", "{", LF>> \o
    <<" ", "v", "a", "r", " ", "x", " ", "i", "n", "t", LF>> \o
    <<"v", "a", "r", " ", "v", "4", ",", " ", "v", "5", " ", "i", "n", "t", LF>> \o
    <<"t", "y", "p", "e", " ", "m", "y", "_", "t", " ", "i", "n", "t", LF>> \o
    <<"v", "a", "r", " ", "_", "u", " ", "i", "n", "t", LF>> \o
    <<"f", "u", "n", "c", " ", " ", "f", "2", "[", "T", " ", "a", "n", "y", "]", "(", ")", " ", "{", "}", LF>> \o
    <<"}", "}", LF>>

\* what os.ReadFile returns for a readable name
Content(fn) == CASE fn = aGoName -> aGoText
                 [] fn = bGoName -> bGoText
                 [] fn = cGoName -> cGoText
                 [] OTHER -> <<"x">>

----------------------------------------------------------------------------
(* go/token and go/parser, as far as computeTags and makeTag use them *)

\* token.NewFileSet: positions start at 1
NewFileSet == [base |-> 1, files |-> <<>>]

\* offsets of the first byte of every line, as the scanner records them
LineStarts(text) ==
    LET nl == {i \in 1..Len(text) : text[i] = LF /\ i < Len(text)}
        RECURSIVE Asc(_)
        Asc(S) == IF S = {} THEN <<>>
                  ELSE LET m == CHOOSE x \in S : \A y \in S : x <= y
                       IN <<m>> \o Asc(S \ {m})
    IN <<0>> \o Asc(nl)

\* go/scanner's trailingDigits: the index after the last colon of t (0 if there
\* is none), the number that follows it, and whether what follows is a number
trailingDigits(t) ==
    LET colons == {k \in 1..Len(t) : t[k] = ":"}
        i      == IF colons = {} THEN 0 ELSE CHOOSE k \in colons : \A m \in colons : m <= k
        ds     == SubSeq(t, i + 1, Len(t))
        ok     == i > 0 /\ ds # <<>> /\ \A k \in 1..Len(ds) : ds[k] \in Digits
    IN [i |-> i, n |-> IF ok THEN Atoi(ds) ELSE 0, ok |-> ok]

\* go/scanner's updateLineInfo on the comment text after "//line " or "/*line ":
\* the line of "filename:line" or "filename:line:col", 0 if nothing is recorded
DirectiveLine(t) ==
    LET a == trailingDigits(t) IN
    IF ~a.ok THEN 0
    ELSE LET b == trailingDigits(SubSeq(t, 1, a.i - 1)) IN
         IF b.ok THEN (IF a.n = 0 THEN 0 ELSE b.n) ELSE a.n

\* the line directives the scanner records through File.AddLineColumnInfo while
\* it scans text: a //line comment that starts a line, a /*line comment anywhere
\* (the texts of the model hold no comment marker inside a string or a comment)
LineInfos(text) ==
    LET IsAt(p, w) == /\ text[p] = w[1]
                      /\ p + Len(w) - 1 <= Len(text)
                      /\ SubSeq(text, p, p + Len(w) - 1) = w
        lineDir  == <<"/", "/", "l", "i", "n", "e", " ">>
        blockDir == <<"/", "*", "l", "i", "n", "e", " ">>
        EndOfLine(p) ==
            LET nl == {e \in p..Len(text) : text[e] = LF}
            IN IF nl = {} THEN Len(text) + 1 ELSE CHOOSE e \in nl : \A m \in nl : e <= m
        lineDirs ==
            {[Offset |-> IF EndOfLine(p) <= Len(text) THEN EndOfLine(p) ELSE Len(text),
              Line   |-> DirectiveLine(SubSeq(text, p + 7, EndOfLine(p) - 1))]
             : p \in {p \in 1..Len(text) :
                         IsAt(p, lineDir) /\ (p = 1 \/ text[p - 1] = LF)}}
        Closers(p) == {q \in (p + 2)..(Len(text) - 1) : text[q] = "*" /\ text[q + 1] = "/"}
        Closer(p)  == CHOOSE q \in Closers(p) : \A m \in Closers(p) : q <= m
        blockDirs ==
            {[Offset |-> Closer(p) + 1,
              Line   |-> DirectiveLine(SubSeq(text, p + 7, Closer(p) - 1))]
             : p \in {p \in 1..Len(text) : IsAt(p, blockDir) /\ Closers(p) # {}}}
    IN {a \in lineDirs \cup blockDirs : a.Line > 0 /\ a.Offset < Len(text)}

\* FileSet.AddFile(filename, -1, size), with the line table and the line
\* directives the scanner adds to the file while it is parsed
AddFile(fs, fn, text) ==
    [base  |-> fs.base + Len(text) + 1,
     files |-> Append(fs.files, [name |-> fn, base |-> fs.base, size |-> Len(text),
                                 lines |-> LineStarts(text),
                                 infos |-> LineInfos(text)])]

\* FileSet.File(pos): the file whose range holds pos
File(fs, pos) ==
    LET k == CHOOSE k \in 1..Len(fs.files) :
                 fs.files[k].base <= pos /\ pos <= fs.files[k].base + fs.files[k].size
    IN fs.files[k]

\* File.Offset(pos)
Offset(tf, pos) == pos - tf.base

\* File.Line(pos) = File.Position(pos).Line: the 1-based index of the last line
\* start not after pos, adjusted by the last line directive not after pos
Line(tf, pos) ==
    LET offs == Offset(tf, pos)
        line == Cardinality({k \in 1..Len(tf.lines) : tf.lines[k] <= offs})
        alts == {a \in tf.infos : a.Offset <= offs}
    IN IF alts = {} THEN line
       ELSE LET alt == CHOOSE a \in alts : \A b \in alts : b.Offset <= a.Offset
                i   == Cardinality({k \in 1..Len(tf.lines) : tf.lines[k] <= alt.Offset})
            IN alt.Line + (line - i)

Ident(base, name, off) == [kind |-> "Ident", Name |-> name, NamePos |-> base + off]
NoExpr == [kind |-> "nil"]
TypeName == [kind |-> "TypeName"]
FieldOf(names, type) == [Names |-> names, Type |-> type]
StructType(fields) == [kind |-> "StructType", Fields |-> fields]
InterfaceType(methods) == [kind |-> "InterfaceType", Methods |-> methods]
StarExpr(x) == [kind |-> "StarExpr", X |-> x]
FuncType == [kind |-> "FuncType"]
TypeSpec(name, type) == [kind |-> "TypeSpec", Name |-> name, Type |-> type]
ValueSpec(names, type) == [kind |-> "ValueSpec", Names |-> names, Type |-> type]
GenDecl(tok, specs) == [kind |-> "GenDecl", Tok |-> tok, Specs |-> specs]
FuncDecl(name, body) == [kind |-> "FuncDecl", Name |-> name, Body |-> body]

\* the *ast.File go/parser builds for a.go, positions relative to base
aGoTree(base) ==
    [Name  |-> Ident(base, <<"m">>, 9),
     Decls |-> <<
        GenDecl("TYPE", <<TypeSpec(Ident(base, <<"t", "4">>, 17), TypeName)>>),
        GenDecl("TYPE", <<
            TypeSpec(Ident(base, <<"t", "2">>, 39), StructType(<<
                FieldOf(<<Ident(base, <<"x">>, 53), Ident(base, <<"y">>, 56)>>, TypeName),
                FieldOf(<<Ident(base, <<"n">>, 64)>>,
                        StructType(<<FieldOf(<<Ident(base, <<"z">>, 75)>>, TypeName)>>)),
                FieldOf(<<Ident(base, <<"p">>, 85)>>,
                        StarExpr(StructType(<<FieldOf(<<Ident(base, <<"q">>, 97)>>, TypeName)>>))),
                FieldOf(<<>>, TypeName)>>)),
            TypeSpec(Ident(base, <<"i", "1">>, 113), InterfaceType(<<
                FieldOf(<<Ident(base, <<"f", "1">>, 130)>>, FuncType),
                FieldOf(<<>>, TypeName)>>))>>)>>]

\* the *ast.File go/parser builds for c.go
cGoTree(base) ==
    [Name  |-> Ident(base, <<"p">>, 8),
     Decls |-> <<
        GenDecl("VAR", <<ValueSpec(<<Ident(base, <<"v", "4">>, 14),
                                     Ident(base, <<"v", "5">>, 18)>>, TypeName)>>),
        GenDecl("CONST", <<ValueSpec(<<Ident(base, <<"c", "1">>, 31)>>, NoExpr)>>),
        GenDecl("VAR", <<ValueSpec(<<Ident(base, <<"s">>, 43)>>,
                    StructType(<<FieldOf(<<Ident(base, <<"f">>, 54)>>, TypeName)>>))>>),
        FuncDecl(Ident(base, <<"m", "1">>, 74),
                 <<GenDecl("VAR", <<ValueSpec(<<Ident(base, <<"l", "v">>, 86)>>, TypeName)>>)>>),
        FuncDecl(Ident(base, <<"m", "_", "2">>, 100), <<>>),
        GenDecl("CONST", <<ValueSpec(<<Ident(base, <<"c", "2">>, 118),
                                       Ident(base, <<"c", "3">>, 122)>>, NoExpr)>>),
        GenDecl("VAR", <<ValueSpec(<<Ident(base, <<"w", "1">>, 153),
                                     Ident(base, <<"w", "2">>, 173)>>, TypeName)>>)>>]

\* whether go/parser reports a syntax error for text
ParseError(text) == text \notin {aGoText, cGoText}

\* the *ast.File of text when its positions start at base
ParseTree(text, base) ==
    CASE text = aGoText -> aGoTree(base)
      [] text = cGoText -> cGoTree(base)
      [] OTHER -> NoExpr

\* parser.ParseFile(fset, inputFn, inputText, parser.SkipObjectResolution):
\* the file is added to the file set whether or not the text parses
ParseFile(fs, fn, text) ==
    [fset |-> AddFile(fs, fn, text),
     err  |-> ParseError(text),
     f    |-> ParseTree(text, fs.base)]

----------------------------------------------------------------------------
(* Syntax-tree extractor: makeTag, structTypeTags, goTags.  Each returns   *)
(* the bytes it writes to output.                                          *)

\* LineStart without the backward scan: the identifier's own offset
LineStartAtIdent(text, offs) == offs

\* the loop of makeTag: back up to the byte after the previous LF, or to 0
RECURSIVE LineStart(_, _)
LineStart(text, offs) ==
    IF offs > 0 /\ text[offs] # LF THEN LineStart(text, offs - 1) ELSE offs

\* makeTag with the pattern cut one byte short of the identifier's end
makeTagShortEnd(text, name, fs) ==
    LET pos  == name.NamePos
        tf   == File(fs, pos)
        line == Line(tf, pos)
        end  == Offset(tf, pos) + Len(name.Name) - 1
        offs == LineStart(text, Offset(tf, pos))
    IN <<LF>> \o SubSeq(text, offs + 1, end) \o <<DEL>> \o name.Name \o <<SOH>>
       \o Itoa(line) \o <<",">> \o Itoa(offs)

\* makeTag writing the line start as a position in the file set
makeTagFileSetOffset(text, name, fs) ==
    LET pos  == name.NamePos
        tf   == File(fs, pos)
        line == Line(tf, pos)
        end  == Offset(tf, pos) + Len(name.Name)
        offs == LineStart(text, Offset(tf, pos))
    IN <<LF>> \o SubSeq(text, offs + 1, end) \o <<DEL>> \o name.Name \o <<SOH>>
       \o Itoa(line) \o <<",">> \o Itoa(tf.base - 1 + offs)

makeTag(text, name, fs) ==
    LET pos  == name.NamePos
        tf   == File(fs, pos)
        line == Line(tf, pos)
        end  == Offset(tf, pos) + Len(name.Name)
        offs == LineStart(text, Offset(tf, pos))
    IN <<LF>> \o SubSeq(text, offs + 1, end) \o <<DEL>> \o name.Name \o <<SOH>>
       \o Itoa(line) \o <<",">> \o Itoa(offs)

RECURSIVE structTypeTags(_, _, _)
structTypeTags(text, it, fs) ==
    Flatten([k \in 1..Len(it.Fields) |->
        LET field == it.Fields[k] IN
        Flatten([n \in 1..Len(field.Names) |-> makeTag(text, field.Names[n], fs)])
        \o (IF field.Type.kind = "StructType"
            THEN structTypeTags(text, field.Type, fs)
            ELSE <<>>)])

\* typeSpecTags descending into a struct type whatever the members flag is
typeSpecTagsAnyMembers(text, ts, fs, mem) ==
    makeTag(text, ts.Name, fs)
    \o (IF ts.Type.kind = "InterfaceType"
        THEN Flatten([k \in 1..Len(ts.Type.Methods) |->
                 LET field == ts.Type.Methods[k] IN
                 IF field.Type.kind = "FuncType"
                 THEN makeTag(text, field.Names[1], fs)
                 ELSE <<>>])
        ELSE IF ts.Type.kind = "StructType"
        THEN structTypeTags(text, ts.Type, fs)
        ELSE <<>>)

\* case token.TYPE of goTags, for one spec
typeSpecTags(text, ts, fs, mem) ==
    makeTag(text, ts.Name, fs)
    \o (IF ts.Type.kind = "InterfaceType"
        THEN Flatten([k \in 1..Len(ts.Type.Methods) |->
                 LET field == ts.Type.Methods[k] IN
                 IF field.Type.kind = "FuncType"
                 THEN makeTag(text, field.Names[1], fs)
                 ELSE <<>>])
        ELSE IF mem /\ ts.Type.kind = "StructType"
        THEN structTypeTags(text, ts.Type, fs)
        ELSE <<>>)

\* valueSpecTags tagging only the first name of a declaration
valueSpecTagsFirstName(text, vs, tok, fs, mem) ==
    makeTag(text, vs.Names[1], fs)
    \o (IF tok = "VAR" /\ mem /\ vs.Type.kind = "StructType"
        THEN structTypeTags(text, vs.Type, fs)
        ELSE <<>>)

\* valueSpecTags writing the members of a struct type before the names
valueSpecTagsMembersFirst(text, vs, tok, fs, mem) ==
    (IF tok = "VAR" /\ mem /\ vs.Type.kind = "StructType"
     THEN structTypeTags(text, vs.Type, fs)
     ELSE <<>>)
    \o Flatten([n \in 1..Len(vs.Names) |-> makeTag(text, vs.Names[n], fs)])

\* case token.VAR, token.CONST of goTags, for one spec
valueSpecTags(text, vs, tok, fs, mem) ==
    Flatten([n \in 1..Len(vs.Names) |-> makeTag(text, vs.Names[n], fs)])
    \o (IF tok = "VAR" /\ mem /\ vs.Type.kind = "StructType"
        THEN structTypeTags(text, vs.Type, fs)
        ELSE <<>>)

\* declTags descending into the declarations of a function body
declTagsWithBody(text, d, fs, mem) ==
    IF d.kind = "FuncDecl"
    THEN makeTag(text, d.Name, fs)
         \o Flatten([j \in 1..Len(d.Body) |->
                Flatten([k \in 1..Len(d.Body[j].Specs) |->
                    valueSpecTags(text, d.Body[j].Specs[k], d.Body[j].Tok, fs, mem)])])
    ELSE IF d.kind = "GenDecl" /\ d.Tok = "TYPE"
    THEN Flatten([k \in 1..Len(d.Specs) |-> typeSpecTags(text, d.Specs[k], fs, mem)])
    ELSE IF d.kind = "GenDecl" /\ d.Tok \in {"VAR", "CONST"}
    THEN Flatten([k \in 1..Len(d.Specs) |->
                    valueSpecTags(text, d.Specs[k], d.Tok, fs, mem)])
    ELSE <<>>

\* the body of goTags' loop over f.Decls, for one declaration
declTags(text, d, fs, mem) ==
    IF d.kind = "FuncDecl" THEN makeTag(text, d.Name, fs)
    ELSE IF d.kind = "GenDecl" /\ d.Tok = "TYPE"
    THEN Flatten([k \in 1..Len(d.Specs) |-> typeSpecTags(text, d.Specs[k], fs, mem)])
    ELSE IF d.kind = "GenDecl" /\ d.Tok \in {"VAR", "CONST"}
    THEN Flatten([k \in 1..Len(d.Specs) |->
                    valueSpecTags(text, d.Specs[k], d.Tok, fs, mem)])
    ELSE <<>>

goTags(text, f, fs, mem) ==
    makeTag(text, f.Name, fs)
    \o Flatten([k \in 1..Len(f.Decls) |-> declTags(text, f.Decls[k], fs, mem)])

----------------------------------------------------------------------------
(* Pattern-based extractor: etagsRe and builtinEtags *)

UpperLetters == {"A", "B", "C", "D", "E", "F", "G", "H", "I", "J", "K", "L", "M", "N",
                 "O", "P", "Q", "R", "S", "T", "U", "V", "W", "X", "Y", "Z"}
LowerLetters == {"a", "b", "c", "d", "e", "f", "g", "h", "i", "j", "k", "l", "m", "n",
                 "o", "p", "q", "r", "s", "t", "u", "v", "w", "x", "y", "z"}

\* identCharSet: (?:\pL|\pN), on the ASCII bytes of the model
identCharSet == UpperLetters \cup LowerLetters \cup Digits

\* \s of Go's regexp: [\t\n\f\r ]
reSpace == {TAB, LF, FF, CR, " "}

\* the keyword alternatives of etagsRe, in order
reKeywords == << <<"p", "a", "c", "k", "a", "g", "e">>, <<"f", "u", "n", "c">>,
                 <<"t", "y", "p", "e">>, <<"v", "a", "r">>, <<"c", "o", "n", "s", "t">> >>

\* first position >= i of l whose byte is not in class (Len(l)+1 if none): a greedy X*
reSkip(l, i, class) ==
    LET stop == {j \in i..Len(l) : l[j] \notin class}
    IN IF stop = {} THEN Len(l) + 1 ELSE CHOOSE j \in stop : \A m \in stop : j <= m

\* first position >= i of l whose byte is c (Len(l)+1 if none): a greedy [^c]*
reSkipNot(l, i, c) ==
    LET stop == {j \in i..Len(l) : l[j] = c}
    IN IF stop = {} THEN Len(l) + 1 ELSE CHOOSE j \in stop : \A m \in stop : j <= m

\* (?:\s*\([^)]+\)) at position k: the position after it, 0 if it does not match
reReceiver(l, k) ==
    LET j == reSkip(l, k, reSpace)
        e == reSkipNot(l, j + 1, ")")
    IN IF j <= Len(l) /\ l[j] = "(" /\ e > j + 1 /\ e <= Len(l) THEN e + 1 ELSE 0

\* \s+(identCharSet+) at position k: the submatches, or "nil"
reName(l, k) ==
    LET j == reSkip(l, k, reSpace)
        e == reSkip(l, j, identCharSet)
    IN IF j > k /\ e > j
       THEN <<SubSeq(l, 1, e - 1), SubSeq(l, 1, e - 1), SubSeq(l, j, e - 1)>>
       ELSE "nil"

\* reAlternative without the ^ anchor at column 0: leading white space is skipped
reAlternativeIndented(l, kw) ==
    LET m == SubSeq(l, reSkip(l, 1, reSpace), Len(l)) IN
    IF ~IsPrefix(kw, m) THEN "nil"
    ELSE LET k == Len(kw) + 1
             r == IF kw = reKeywords[2] THEN reReceiver(m, k) ELSE 0
         IN IF r # 0 /\ reName(m, r) # "nil" THEN reName(m, r) ELSE reName(m, k)

\* one keyword alternative of etagsRe on the line l
reAlternative(l, kw) ==
    IF ~IsPrefix(kw, l) THEN "nil"
    ELSE LET k == Len(kw) + 1
             r == IF kw = reKeywords[2] THEN reReceiver(l, k) ELSE 0
         IN IF r # 0 /\ reName(l, r) # "nil" THEN reName(l, r) ELSE reName(l, k)

\* etagsRe.FindStringSubmatch(l): <<m[0], m[1], m[2]>> or "nil"
etagsRe(l) ==
    LET hits == {a \in 1..Len(reKeywords) : reAlternative(l, reKeywords[a]) # "nil"}
    IN IF hits = {} THEN "nil"
       ELSE reAlternative(l, reKeywords[CHOOSE a \in hits : \A b \in hits : a <= b])

\* strings.Split(s, "\n")
RECURSIVE Split(_)
Split(s) ==
    LET i == reSkipNot(s, 1, LF)
    IN IF i > Len(s) THEN <<s>>
       ELSE <<SubSeq(s, 1, i - 1)>> \o Split(SubSeq(s, i + 1, Len(s)))

\* builtinEtags writing implicit tags, without the name and SOH
builtinEtagsImplicit(text) ==
    LET lines == Split(text)
    IN Flatten([k \in 1..Len(lines) |->
           LET m      == etagsRe(lines[k])
               lineno == k - 1
           IN IF m # "nil"
              THEN <<LF>> \o m[2] \o <<DEL>> \o Itoa(lineno + 1) \o <<",">>
              ELSE <<>>])

builtinEtags(text) ==
    LET lines == Split(text)
    IN Flatten([k \in 1..Len(lines) |->
           LET m      == etagsRe(lines[k])
               lineno == k - 1
           IN IF m # "nil"
              THEN <<LF>> \o m[2] \o <<DEL>> \o m[3] \o <<SOH>> \o Itoa(lineno + 1) \o <<",">>
              ELSE <<>>])

----------------------------------------------------------------------------
(* The delegate program (the native etags), an external process *)

NoExit == "running"

\* what the delegate may have written to its standard output when cmd.Run returns
etagsSection == <<FF, LF, "t", ".", "c", ",", "9", LF, "f", "(", DEL, "1", ",", "0", LF>>
DelegateStdouts == {<<>>, etagsSection}

\* ExitError.ExitCode() of a delegate that did not exit with 0; -1: killed by a signal
DelegateExitCodes == {3, -1}

\* the results of cmd.Run: err is "nil", "ExitError" or "other" (could not be started)
RunResults ==
    [err : {"nil"}, code : {0}, stdout : DelegateStdouts]
    \cup [err : {"ExitError"}, code : DelegateExitCodes, stdout : DelegateStdouts]
    \cup [err : {"other"}, code : {0}, stdout : {<<>>}]

\* strings.Join(names, "\n")
RECURSIVE Join(_)
Join(names) ==
    IF names = <<>> THEN <<>>
    ELSE IF Len(names) = 1 THEN names[1]
    ELSE names[1] \o <<LF>> \o Join(Tail(names))

NoCmd == [state |-> "none"]

\* os.Exit(code): the status the parent sees is the low 8 bits
ExitStatusOf(code) == code % 256

----------------------------------------------------------------------------
(* computeTags and systemEtags, step by step *)

Call(op, i) == [op |-> op, idx |-> i]

\* one diagnostic: log.Printf(msg, arg), log.Print(arg), fmt.Fprintf(os.Stderr, msg)
Log(msg, arg) == [msg |-> msg, arg |-> arg]

\* a diagnostic per element of args, in order
LogEach(msg, args) == [i \in 1..Len(args) |-> Log(msg, args[i])]

InputSeqs == UNION {[1..n -> Names] : n \in 0..MaxInputs}

Range(s) == {s[k] : k \in 1..Len(s)}

NoRun == [output |-> "none"]

\* computeTags is entered with a name sequence and an output sink of the caller;
\* -q and -v are not given and the delegate writes nothing to its standard
\* error (InitLog lifts both)
Init ==
    /\ optsErr = FALSE
    /\ help = FALSE
    /\ version = FALSE
    /\ quiet = FALSE
    /\ verbose = FALSE
    /\ outname = "-"
    /\ stdin = <<>>
    /\ outFile = "untouched"
    /\ previous = NoRun
    /\ inputs \in InputSeqs
    /\ inputFilenames = inputs
    /\ unreadable \in SUBSET {fn \in Range(inputs) : Ext(fn) = goExt}
    /\ etagsStderr = <<>>
    /\ members \in BOOLEAN
    /\ systemEtagsCommand \in {"", "/usr/bin/etags"}
    /\ pc = "loop"
    /\ idx = 0
    /\ unhandledFiles = <<>>
    /\ output = <<>>
    /\ fset = NewFileSet
    /\ inputText = <<>>
    /\ parsed = NoExpr
    /\ cmd = NoCmd
    /\ exitStatus = NoExit
    /\ logged = <<>>
    /\ calls = <<>>

\* the section header: "\x0C\x0A%s,0"
Header(inputFn) == <<FF, LF>> \o inputFn \o <<",", "0">>

\* Classify with the header written before the extension is looked at
ClassifyHeaderFirst ==
    /\ pc = "loop"
    /\ idx < Len(inputs)
    /\ idx' = idx + 1
    /\ LET inputFn == inputs[idx + 1] IN
       IF Ext(inputFn) # goExt
       THEN /\ unhandledFiles' = Append(unhandledFiles, inputFn)
            /\ output' = output \o Header(inputFn)
            /\ pc' = "loop"
       ELSE /\ unhandledFiles' = unhandledFiles
            /\ output' = output
            /\ pc' = "header"
    /\ calls' = Append(calls, Call("Ext", idx + 1))
    /\ UNCHANGED <<cmdLine, logged, outFile, previous, inputs, unreadable, etagsStderr, members,
                   systemEtagsCommand, fset,
                   inputText, parsed, cmd, exitStatus>>

\* for inputFn := range inputs; if path.Ext(inputFn) != ".go" { append; continue }
Classify ==
    /\ pc = "loop"
    /\ idx < Len(inputs)
    /\ idx' = idx + 1
    /\ LET inputFn == inputs[idx + 1] IN
       IF Ext(inputFn) # goExt
       THEN /\ unhandledFiles' = Append(unhandledFiles, inputFn)
            /\ pc' = "loop"
       ELSE /\ unhandledFiles' = unhandledFiles
            /\ pc' = "header"
    /\ calls' = Append(calls, Call("Ext", idx + 1))
    /\ UNCHANGED <<cmdLine, logged, outFile, previous, inputs, unreadable, etagsStderr, members,
                   systemEtagsCommand, output, fset,
                   inputText, parsed, cmd, exitStatus>>

\* fmt.Fprintf(output, "\x0C\x0A%s,0", inputFn)
WriteHeader ==
    /\ pc = "header"
    /\ output' = output \o Header(inputs[idx])
    /\ pc' = "read"
    /\ UNCHANGED <<cmdLine, logged, outFile, previous, inputs, unreadable, etagsStderr, members,
                   systemEtagsCommand, idx, unhandledFiles,
                   fset, inputText, parsed, cmd, exitStatus, calls>>

\* inputBytes, err := os.ReadFile(inputFn); if err != nil { ...; continue }
ReadFile ==
    /\ pc = "read"
    /\ calls' = Append(calls, Call("ReadFile", idx))
    /\ logged' = IF inputs[idx] \in unreadable /\ ~quiet
                  THEN Append(logged, Log("Skipping", inputs[idx]))
                  ELSE logged
    /\ IF inputs[idx] \in unreadable
       THEN /\ pc' = "loop"
            /\ inputText' = inputText
       ELSE /\ pc' = "parse"
            /\ inputText' = Content(inputs[idx])
    /\ UNCHANGED <<cmdLine, outFile, previous, inputs, unreadable, etagsStderr, members,
                   systemEtagsCommand, idx, unhandledFiles,
                   output, fset, parsed, cmd, exitStatus>>

\* f, err := parser.ParseFile(fset, inputFn, inputText, parser.SkipObjectResolution)
Parse ==
    /\ pc = "parse"
    /\ LET r == ParseFile(fset, inputs[idx], inputText) IN
       /\ fset' = r.fset
       /\ parsed' = [err |-> r.err, f |-> r.f]
    /\ calls' = Append(calls, Call("ParseFile", idx))
    /\ pc' = "extract"
    /\ UNCHANGED <<cmdLine, logged, outFile, previous, inputs, unreadable, etagsStderr, members,
                   systemEtagsCommand, idx, unhandledFiles,
                   output, inputText, cmd, exitStatus>>

\* if err == nil { goTags(inputFn, inputText, f, output) }
GoTags ==
    /\ pc = "extract"
    /\ ~parsed.err
    /\ output' = output \o goTags(inputText, parsed.f, fset, members)
    /\ logged' = IF verbose THEN Append(logged, Log("Gotags", inputs[idx])) ELSE logged
    /\ calls' = Append(calls, Call("goTags", idx))
    /\ pc' = "terminator"
    /\ UNCHANGED <<cmdLine, outFile, previous, inputs, unreadable, etagsStderr, members,
                   systemEtagsCommand, idx, unhandledFiles,
                   fset, inputText, parsed, cmd, exitStatus>>

\* BuiltinEtags without the test of the parse error
BuiltinEtagsUnguarded ==
    /\ pc = "extract"
    /\ output' = output \o builtinEtags(inputText)
    /\ logged' = logged
                  \o (IF ~quiet THEN <<Log("Reverting to etags parsing", inputs[idx])>> ELSE <<>>)
                  \o (IF verbose THEN <<Log("Builtin etags", inputs[idx])>> ELSE <<>>)
    /\ calls' = Append(calls, Call("builtinEtags", idx))
    /\ pc' = "terminator"
    /\ UNCHANGED <<cmdLine, outFile, previous, inputs, unreadable, etagsStderr, members,
                   systemEtagsCommand, idx, unhandledFiles,
                   fset, inputText, parsed, cmd, exitStatus>>

\* else { ...; builtinEtags(inputFn, inputText, output) }
BuiltinEtags ==
    /\ pc = "extract"
    /\ parsed.err
    /\ output' = output \o builtinEtags(inputText)
    /\ logged' = logged
                  \o (IF ~quiet THEN <<Log("Reverting to etags parsing", inputs[idx])>> ELSE <<>>)
                  \o (IF verbose THEN <<Log("Builtin etags", inputs[idx])>> ELSE <<>>)
    /\ calls' = Append(calls, Call("builtinEtags", idx))
    /\ pc' = "terminator"
    /\ UNCHANGED <<cmdLine, outFile, previous, inputs, unreadable, etagsStderr, members,
                   systemEtagsCommand, idx, unhandledFiles,
                   fset, inputText, parsed, cmd, exitStatus>>

\* fmt.Fprintf(output, "\x0A")
WriteTerminator ==
    /\ pc = "terminator"
    /\ output' = output \o <<LF>>
    /\ pc' = "loop"
    /\ UNCHANGED <<cmdLine, logged, outFile, previous, inputs, unreadable, etagsStderr, members,
                   systemEtagsCommand, idx, unhandledFiles,
                   fset, inputText, parsed, cmd, exitStatus, calls>>

\* EndLoop without the test of systemEtagsCommand
EndLoopNoPathCheck ==
    /\ pc = "loop"
    /\ idx = Len(inputs)
    /\ IF Len(unhandledFiles) > 0
       THEN /\ pc' = "systemEtags"
            /\ exitStatus' = exitStatus
       ELSE /\ pc' = "done"
            /\ exitStatus' = 0
    /\ UNCHANGED <<cmdLine, logged, outFile, previous, inputs, unreadable, etagsStderr, members,
                   systemEtagsCommand, idx, unhandledFiles,
                   output, fset, inputText, parsed, cmd, calls>>

\* after the loop: if len(unhandledFiles) > 0 && systemEtagsCommand != "" { systemEtags }
\* otherwise computeTags and main return
EndLoop ==
    /\ pc = "loop"
    /\ idx = Len(inputs)
    /\ IF Len(unhandledFiles) > 0 /\ systemEtagsCommand # ""
       THEN /\ pc' = "systemEtags"
            /\ exitStatus' = exitStatus
       ELSE /\ pc' = "done"
            /\ exitStatus' = 0
    /\ UNCHANGED <<cmdLine, logged, outFile, previous, inputs, unreadable, etagsStderr, members,
                   systemEtagsCommand, idx, unhandledFiles,
                   output, fset, inputText, parsed, cmd, calls>>

\* StartDelegate going on without waiting for the delegate to exit
StartDelegateNoWait ==
    /\ pc = "systemEtags"
    /\ logged' = logged \o (IF verbose THEN LogEach("System etags", unhandledFiles) ELSE <<>>)
    /\ cmd' = [state |-> "running",
               path  |-> systemEtagsCommand,
               args  |-> <<"-o", "-", "-">> \o (IF ~members THEN <<"--no-members">> ELSE <<>>),
               stdin |-> Join(unhandledFiles),
               err |-> "nil", code |-> 0, stdout |-> <<>>, stderr |-> <<>>]
    /\ calls' = Append(calls, Call("systemEtags", 0))
    /\ pc' = "copy"
    /\ UNCHANGED <<cmdLine, outFile, previous, inputs, unreadable, etagsStderr, members,
                   systemEtagsCommand, idx, unhandledFiles,
                   output, fset, inputText, parsed, exitStatus>>

\* StartDelegate never passing --no-members
StartDelegateNoFlag ==
    /\ pc = "systemEtags"
    /\ logged' = logged \o (IF verbose THEN LogEach("System etags", unhandledFiles) ELSE <<>>)
    /\ cmd' = [state |-> "running",
               path  |-> systemEtagsCommand,
               args  |-> <<"-o", "-", "-">>,
               stdin |-> Join(unhandledFiles)]
    /\ calls' = Append(calls, Call("systemEtags", 0))
    /\ pc' = "run"
    /\ UNCHANGED <<cmdLine, outFile, previous, inputs, unreadable, etagsStderr, members,
                   systemEtagsCommand, idx, unhandledFiles,
                   output, fset, inputText, parsed, exitStatus>>

\* systemEtags up to cmd.Run(): the command, its arguments and its standard input
StartDelegate ==
    /\ pc = "systemEtags"
    /\ logged' = logged \o (IF verbose THEN LogEach("System etags", unhandledFiles) ELSE <<>>)
    /\ cmd' = [state |-> "running",
               path  |-> systemEtagsCommand,
               args  |-> <<"-o", "-", "-">> \o (IF ~members THEN <<"--no-members">> ELSE <<>>),
               stdin |-> Join(unhandledFiles)]
    /\ calls' = Append(calls, Call("systemEtags", 0))
    /\ pc' = "run"
    /\ UNCHANGED <<cmdLine, outFile, previous, inputs, unreadable, etagsStderr, members,
                   systemEtagsCommand, idx, unhandledFiles,
                   output, fset, inputText, parsed, exitStatus>>

\* err := cmd.Run() returns: the delegate could not be started, or it has exited
\* and what it wrote is in the two strings.Builder
RunReturns ==
    /\ pc = "run"
    /\ \E r \in RunResults :
          cmd' = [cmd EXCEPT !.state = "exited"] @@
                 [err |-> r.err, code |-> r.code, stdout |-> r.stdout,
                  stderr |-> IF r.err = "other" THEN <<>> ELSE etagsStderr]
    /\ pc' = "copy"
    /\ UNCHANGED <<cmdLine, logged, outFile, previous, inputs, unreadable, etagsStderr, members,
                   systemEtagsCommand, idx, unhandledFiles,
                   output, fset, inputText, parsed, exitStatus, calls>>

\* CopyStdout replacing the output instead of appending to it
CopyStdoutOverwrite ==
    /\ pc = "copy"
    /\ logged' = logged \o (IF cmd.stderr # <<>>
                             THEN LogEach("Print", Split(cmd.stderr))
                             ELSE <<>>)
    /\ output' = cmd.stdout
    /\ pc' = "status"
    /\ UNCHANGED <<cmdLine, outFile, previous, inputs, unreadable, etagsStderr, members,
                   systemEtagsCommand, idx, unhandledFiles,
                   fset, inputText, parsed, cmd, exitStatus, calls>>

\* errText := stderr.String(); if errText != "" { log.Print of each line }
\* fmt.Fprint(output, stdout.String())
CopyStdout ==
    /\ pc = "copy"
    /\ logged' = logged \o (IF cmd.stderr # <<>>
                             THEN LogEach("Print", Split(cmd.stderr))
                             ELSE <<>>)
    /\ output' = output \o cmd.stdout
    /\ pc' = "status"
    /\ UNCHANGED <<cmdLine, outFile, previous, inputs, unreadable, etagsStderr, members,
                   systemEtagsCommand, idx, unhandledFiles,
                   fset, inputText, parsed, cmd, exitStatus, calls>>

\* systemEtagsStatus taking output on the delegate's standard error for a failure
systemEtagsStatusStderrFatal(c) ==
    IF c.err # "nil"
    THEN IF c.err = "ExitError" /\ c.code # 0
         THEN ExitStatusOf(c.code)
         ELSE ExitStatusOf(1)
    ELSE IF c.stderr # <<>> THEN ExitStatusOf(1)
    ELSE 0

\* the status systemEtags ends the run with
\* if err != nil { if ExitError && ExitCode() != 0 { os.Exit(ExitCode()) }; os.Exit(1) }
systemEtagsStatus(c) ==
    IF c.err # "nil"
    THEN IF c.err = "ExitError" /\ c.code # 0
         THEN ExitStatusOf(c.code)
         ELSE ExitStatusOf(1)
    ELSE 0

Exit ==
    /\ pc = "status"
    /\ logged' = IF cmd.err # "nil" THEN Append(logged, Log("Print", <<cmd.err>>)) ELSE logged
    /\ exitStatus' = systemEtagsStatus(cmd)
    /\ pc' = "done"
    /\ UNCHANGED <<cmdLine, outFile, previous, inputs, unreadable, etagsStderr, members,
                   systemEtagsCommand, idx, unhandledFiles,
                   output, fset, inputText, parsed, cmd, calls>>

Next ==
    \/ Classify
    \/ WriteHeader
    \/ ReadFile
    \/ Parse
    \/ GoTags
    \/ BuiltinEtags
    \/ WriteTerminator
    \/ EndLoop
    \/ StartDelegate
    \/ RunReturns
    \/ CopyStdout
    \/ Exit

Spec == Init /\ [][Next]_vars

\* the positions at which the program itself takes the next step; at "run" it
\* waits in cmd.Run() for the delegate, at "done" it has returned or exited
ProgramPositions ==
    {"loop", "header", "read", "parse", "extract", "terminator",
     "systemEtags", "copy", "status"}

\* a step of the program, seen as its move to another position (pc, idx)
Moves ==
    /\ pc \in ProgramPositions
    /\ pc' \in ProgramPositions \cup {"run", "done"}
    /\ idx' \in 0..Len(inputs)

\* the process is scheduled: at a position of its own the program goes on.
\* Nothing is assumed about the delegate, which may never exit.
SpecLive == Init /\ [][Next]_vars /\ WF_<<pc, idx>>(Moves)

----------------------------------------------------------------------------
(* computeTags with -q and -v set or not, and a delegate that writes to    *)
(* its standard error.                                                     *)

\* what the delegate may write to its standard error
DelegateStderrs == {<<>>, <<"w", LF>>, <<"w", LF, "x">>}

InitLog ==
    /\ optsErr = FALSE
    /\ help = FALSE
    /\ version = FALSE
    /\ quiet \in BOOLEAN
    /\ verbose \in BOOLEAN
    /\ outname = "-"
    /\ stdin = <<>>
    /\ outFile = "untouched"
    /\ previous = NoRun
    /\ inputs \in UNION {[1..n -> Names] : n \in 0..MaxLogInputs}
    /\ inputFilenames = inputs
    /\ unreadable \in SUBSET {fn \in Range(inputs) : Ext(fn) = goExt}
    /\ systemEtagsCommand \in {"", "/usr/bin/etags"}
    /\ etagsStderr \in (IF systemEtagsCommand # "" /\ \E k \in 1..Len(inputs) : Ext(inputs[k]) # goExt
                        THEN DelegateStderrs ELSE {<<>>})
    /\ members \in BOOLEAN
    /\ pc = "loop"
    /\ idx = 0
    /\ unhandledFiles = <<>>
    /\ output = <<>>
    /\ fset = NewFileSet
    /\ inputText = <<>>
    /\ parsed = NoExpr
    /\ cmd = NoCmd
    /\ exitStatus = NoExit
    /\ logged = <<>>
    /\ calls = <<>>

SpecLog == InitLog /\ [][Next]_vars

----------------------------------------------------------------------------
(* main: from the command line to computeTags.  The usage and version texts *)
(* go to standard output and are not part of the state.                    *)

dashName == <<"-">>

\* utils.GenerateLinesFromReader(os.Stdin): bufio.Scanner with ScanLines, which
\* yields each line without its LF and without one CR before it, and a final
\* line that has no LF if it is not empty
RECURSIVE GenerateLinesFromReader(_)
GenerateLinesFromReader(s) ==
    LET dropCR(l) == IF l # <<>> /\ l[Len(l)] = CR THEN SubSeq(l, 1, Len(l) - 1) ELSE l
        i == reSkipNot(s, 1, LF)
    IN IF s = <<>> THEN <<>>
       ELSE IF i > Len(s) THEN <<dropCR(s)>>
       ELSE <<dropCR(SubSeq(s, 1, i - 1))>>
            \o GenerateLinesFromReader(SubSeq(s, i + 1, Len(s)))

\* InputsOf reading the piped input whenever the first name is "-"
InputsOfDashFirst(names, piped) ==
    IF Len(names) >= 1 /\ names[1] = dashName
    THEN GenerateLinesFromReader(piped)
    ELSE names

\* if len(inputFilenames) == 1 && inputFilenames[0] == "-" { lines of stdin }
\* else { slices.Values(inputFilenames) }
InputsOf(names, piped) ==
    IF Len(names) = 1 /\ names[1] = dashName
    THEN GenerateLinesFromReader(piped)
    ELSE names

NoEarlyExit == -1

\* EarlyExit without the test for an empty list of names
EarlyExitNoNamesOk(err, h, v, names) ==
    IF err THEN 2
    ELSE IF h \/ v THEN 0
    ELSE NoEarlyExit

\* the status main ends the run with before it opens the output, NoEarlyExit if
\* it goes on: os.Exit(2) for bad arguments, os.Exit(0) after the help or version
\* text, os.Exit(2) when there is no input name
EarlyExit(err, h, v, names) ==
    IF err THEN 2
    ELSE IF h \/ v THEN 0
    ELSE IF Len(names) = 0 THEN 2
    ELSE NoEarlyExit

\* the byte strings piped into standard input
StdinTexts ==
    {<<>>,
     Join(<<cGoName, tCName>>),
     cGoName \o <<CR, LF>> \o bGoName \o <<LF>>,
     aGoName \o <<LF>> \o aGoName \o <<LF>>,
     <<LF>> \o cGoName \o <<LF>>,
     dashName \o <<LF>>}

ArgSeqs == UNION {[1..n -> Names \cup {dashName}] : n \in 0..MaxArgs}

\* the process is started: utils.GetOpts has run the option handlers
InitMain ==
    /\ optsErr \in BOOLEAN
    /\ help \in BOOLEAN
    /\ version \in BOOLEAN
    /\ quiet = FALSE
    /\ verbose = FALSE
    /\ outname \in {"-", "TAGS"}
    /\ inputFilenames \in ArgSeqs
    /\ stdin \in (IF inputFilenames = <<dashName>> THEN StdinTexts ELSE {<<>>})
    /\ outFile = "untouched"
    /\ previous = NoRun
    /\ inputs = <<>>
    /\ unreadable \in SUBSET {fn \in Range(InputsOf(inputFilenames, stdin)) : Ext(fn) = goExt}
    /\ etagsStderr = <<>>
    /\ members \in BOOLEAN
    /\ systemEtagsCommand \in {"", "/usr/bin/etags"}
    /\ pc = "main"
    /\ idx = 0
    /\ unhandledFiles = <<>>
    /\ output = <<>>
    /\ fset = NewFileSet
    /\ inputText = <<>>
    /\ parsed = NoExpr
    /\ cmd = NoCmd
    /\ exitStatus = NoExit
    /\ logged = <<>>
    /\ calls = <<>>

\* main up to the call of computeTags
Main ==
    /\ pc = "main"
    /\ LET early == EarlyExit(optsErr, help, version, inputFilenames) IN
       IF early # NoEarlyExit
       THEN /\ exitStatus' = early
            /\ logged' = IF optsErr
                         THEN Append(logged, Log("Bad command line arguments", <<>>))
                         ELSE IF early = 2
                         THEN Append(logged, Log("No input files", <<>>))
                         ELSE logged
            /\ pc' = "exited"
            /\ UNCHANGED <<inputs, outFile>>
       ELSE /\ inputs' = InputsOf(inputFilenames, stdin)
            /\ IF outname = "-"
               THEN /\ pc' = "loop"
                    /\ UNCHANGED <<outFile, exitStatus, logged>>
               ELSE \/ /\ outFile' = "created"
                       /\ pc' = "loop"
                       /\ UNCHANGED <<exitStatus, logged>>
                    \/ /\ exitStatus' = 1
                       /\ logged' = Append(logged, Log("Fatal", <<>>))
                       /\ pc' = "exited"
                       /\ UNCHANGED outFile
    /\ UNCHANGED <<cmdLine, previous, unreadable, etagsStderr, members, systemEtagsCommand, idx,
                   unhandledFiles, output, fset, inputText, parsed, cmd, calls>>

NextMain == Main \/ Next

SpecMain == InitMain /\ [][NextMain]_vars

----------------------------------------------------------------------------
(* computeTags called a second time in the same process, as the tests do:  *)
(* the file set is the package-level one and lives on.                     *)

CallAgain ==
    /\ pc = "done"
    /\ exitStatus = 0
    /\ previous = NoRun
    /\ previous' = [output |-> output,
                    stdout |-> IF cmd = NoCmd THEN <<>> ELSE cmd.stdout]
    /\ pc' = "loop"
    /\ idx' = 0
    /\ unhandledFiles' = <<>>
    /\ output' = <<>>
    /\ inputText' = <<>>
    /\ parsed' = NoExpr
    /\ cmd' = NoCmd
    /\ exitStatus' = NoExit
    /\ calls' = <<>>
    /\ UNCHANGED <<cmdLine, logged, outFile, inputs, unreadable, etagsStderr, members, systemEtagsCommand, fset>>

NextAgain == CallAgain \/ Next

SpecAgain == Init /\ [][NextAgain]_vars

----------------------------------------------------------------------------
(* Reading the output back: sections and tag records *)

\* strings.Split(s, c) for a single byte c
RECURSIVE SplitOn(_, _)
SplitOn(s, c) ==
    LET i == reSkipNot(s, 1, c)
    IN IF i > Len(s) THEN <<s>>
       ELSE <<SubSeq(s, 1, i - 1)>> \o SplitOn(SubSeq(s, i + 1, Len(s)), c)

\* the byte runs that follow each FF of the output
SectionsOf(out) == Tail(SplitOn(out, FF))

IsNative(fn) == Ext(fn) = goExt

NativeInputs == {k \in 1..Len(inputs) : IsNative(inputs[k])}

\* position of native input k among the native inputs
NativeRank(k) == Cardinality({j \in NativeInputs : j <= k})

Done == pc = "done"

Called(op, k) == \E c \in 1..Len(calls) : calls[c] = Call(op, k)

CallCount(op, k) == Cardinality({c \in 1..Len(calls) : calls[c] = Call(op, k)})

\* the header line of a section: LF filename ",0"
HeaderLine(fn) == <<LF>> \o fn \o <<",", "0">>

\* sec is a complete section of fn: header, then LF-led tags, then a terminating LF
Framed(sec, fn) ==
    /\ IsPrefix(HeaderLine(fn), sec)
    /\ Len(sec) > Len(HeaderLine(fn))
    /\ sec[Len(HeaderLine(fn)) + 1] = LF
    /\ sec[Len(sec)] = LF

----------------------------------------------------------------------------
(* C1: section framing *)

\* C1: for N input filenames the output holds exactly N section headers
\* (FF LF filename ",0"), one per input name in input order, each section closed
\* by a terminating LF before the next header or the end of the output.  Stated
\* on the runs whose names are all native, where every header is the core's own.
C1_SectionFraming ==
    (Done /\ NativeInputs = 1..Len(inputs)) =>
        LET secs == SectionsOf(output) IN
        /\ Head(SplitOn(output, FF)) = <<>>
        /\ Len(secs) = Len(inputs)
        /\ \A k \in 1..Len(inputs) : Framed(secs[k], inputs[k])

----------------------------------------------------------------------------
(* C7: an unreadable native file *)

\* C7: an unreadable native file is non-fatal: the run goes on to the later
\* inputs, and the file's contribution to the output is exactly its header
\* followed by the section terminator LF, with no tags.
C7_UnreadableEmptySection ==
    Done =>
        \A k \in NativeInputs :
            inputs[k] \in unreadable =>
                /\ \A j \in 1..Len(inputs) : Called("Ext", j)
                /\ NativeRank(k) <= Len(SectionsOf(output))
                /\ SectionsOf(output)[NativeRank(k)] = HeaderLine(inputs[k]) \o <<LF>>

----------------------------------------------------------------------------
(* What computeTags writes for a list of native names, as a function *)

\* the loop body of computeTags for the native name fn: the bytes written and
\* the file set afterwards
SectionOf(fn, fs, unread, mem) ==
    IF fn \in unread THEN [bytes |-> Header(fn), fset |-> fs]
    ELSE LET text == Content(fn)
             r    == ParseFile(fs, fn, text)
         IN [bytes |-> Header(fn)
                       \o (IF r.err THEN builtinEtags(text) ELSE goTags(text, r.f, r.fset, mem))
                       \o <<LF>>,
             fset  |-> r.fset]

RECURSIVE NativeSections(_, _, _, _)
NativeSections(fns, fs, unread, mem) ==
    IF fns = <<>> THEN <<>>
    ELSE LET s == SectionOf(Head(fns), fs, unread, mem)
         IN s.bytes \o NativeSections(Tail(fns), s.fset, unread, mem)

\* the output of a run on the native names of the inputs alone
NativeOnlyOutput ==
    NativeSections(SelectSeq(inputs, IsNative), NewFileSet, unreadable, members)

DelegateFailed == cmd.state = "exited" /\ cmd.err # "nil"

\* the part of the output written before the delegate's standard output was copied
NativePart ==
    IF pc \in {"status", "done"} /\ cmd.state = "exited"
    THEN SubSeq(output, 1, Len(output) - Len(cmd.stdout))
    ELSE output

----------------------------------------------------------------------------
(* C2: when the delegate adapter runs *)

\* C2: systemEtags is invoked at most once, and only after every input name
\* has been classified and every native file's section (header, tags,
\* terminator) has been completely written; it is invoked if and only if a
\* non-native name was seen and the delegate program path is non-empty.
C2_DelegateOnceAfterNative ==
    /\ CallCount("systemEtags", 0) <= 1
    /\ Called("systemEtags", 0) =>
          /\ \A j \in 1..Len(inputs) : Called("Ext", j)
          /\ pc \in {"run", "copy", "status", "done"}
          /\ LET secs == SectionsOf(NativePart) IN
             \A k \in NativeInputs :
                /\ NativeRank(k) <= Len(secs)
                /\ Framed(secs[NativeRank(k)], inputs[k])
    /\ Done => (Called("systemEtags", 0) <=>
                   (NativeInputs # 1..Len(inputs) /\ systemEtagsCommand # ""))

----------------------------------------------------------------------------
(* C3: delegation pass-through *)

\* C3: a name whose extension is not exactly ".go" is never read, parsed or
\* scanned by either extractor and gets no header, tag or terminator from the
\* core; all the output beyond the native sections is the delegate's captured
\* standard output, byte for byte.
C3_NonNativePassThrough ==
    /\ \A c \in 1..Len(calls) :
          calls[c].op \in {"ReadFile", "ParseFile", "goTags", "builtinEtags"}
              => IsNative(inputs[calls[c].idx])
    /\ Done => output = NativeOnlyOutput
                        \o (IF Called("systemEtags", 0) THEN cmd.stdout ELSE <<>>)

C3_Witness ==
    /\ Done
    /\ NativeInputs \notin {{}, 1..Len(inputs)}
    /\ Called("systemEtags", 0)
    /\ cmd.stdout = etagsSection
    /\ inputs[1] = tCName

----------------------------------------------------------------------------
(* C4: the status of a run whose delegate failed *)

\* C4: if the delegate cannot be started or exits with a non-zero status, the
\* run ends with a non-zero status: the delegate's own exit code when that is
\* available and non-zero, otherwise the fixed status 1; never with status 0.
C4_DelegateFailureStatus ==
    (Done /\ DelegateFailed) =>
        /\ exitStatus # 0
        /\ exitStatus = (IF cmd.err = "ExitError" /\ cmd.code > 0 THEN cmd.code ELSE 1)

----------------------------------------------------------------------------
(* C5: output already written survives a delegate failure *)

\* C5: from the call of systemEtags on, and so also when the delegate fails,
\* every byte already written to the output stays in place and unchanged:
\* each step only appends.
InSystemEtags == pc \in {"systemEtags", "run", "copy", "status"}

C5_OutputPreserved == [][InSystemEtags => IsPrefix(output, output')]_vars

C5_Witness ==
    /\ Done
    /\ DelegateFailed
    /\ exitStatus # 0
    /\ NativeInputs # {}
    /\ cmd.stdout # <<>>
    /\ Len(output) > Len(cmd.stdout)

----------------------------------------------------------------------------
(* C6: delegation disabled *)

\* C6: with an empty delegate program path, non-native names contribute no byte
\* to the output, no delegate process is started, no error is raised, and the
\* run ends with the status and the native sections of a run on the native
\* names alone.
C6_DisabledDelegateDropsFiles ==
    (Done /\ systemEtagsCommand = "") =>
        /\ output = NativeOnlyOutput
        /\ ~Called("systemEtags", 0)
        /\ cmd = NoCmd
        /\ exitStatus = 0

C6_Witness ==
    /\ Done
    /\ systemEtagsCommand = ""
    /\ NativeInputs \notin {{}, 1..Len(inputs)}
    /\ output # <<>>

----------------------------------------------------------------------------
(* Decoding tag records: LF pattern DEL name SOH line "," [offset] *)

NoOffset == -1

DecodeTag(l) ==
    LET a == SplitOn(l, DEL)
        b == SplitOn(a[2], SOH)
        c == SplitOn(b[2], ",")
    IN [pattern |-> a[1], name |-> b[1], line |-> Atoi(c[1]),
        offset |-> IF c[2] = <<>> THEN NoOffset ELSE Atoi(c[2])]

\* the tag records of a section: the lines between the header and the terminator
TagsOf(sec) ==
    LET ls == SplitOn(sec, LF)
    IN [t \in 1..(Len(ls) - 3) |-> DecodeTag(ls[t + 2])]

\* the sections the core itself wrote
NativeSecs == SectionsOf(NativePart)

\* among the core's sections secs, the one of native input k
SectionAt(secs, k) == secs[NativeRank(k)]

Readable(k) == inputs[k] \notin unreadable

\* whether go/parser rejects the content of input k
ParseFails(k) == ParseError(Content(inputs[k]))

----------------------------------------------------------------------------
(* C8: exactly one extractor per readable native file *)

\* C8: for every readable native file exactly one extractor runs, goTags if and
\* only if the parse succeeds and builtinEtags if and only if it fails; a parse
\* failure does not abort the run or change its exit status: the section is
\* framed by header and terminator and all later files are processed.
C8_ExactlyOneExtractor ==
    Done =>
        LET secs == NativeSecs IN
        \A k \in NativeInputs :
            Readable(k) =>
                /\ CallCount("goTags", k) = (IF ParseFails(k) THEN 0 ELSE 1)
                /\ CallCount("builtinEtags", k) = (IF ParseFails(k) THEN 1 ELSE 0)
                /\ Framed(SectionAt(secs, k), inputs[k])
                /\ \A j \in 1..Len(inputs) : Called("Ext", j)
                /\ exitStatus # 0 => DelegateFailed

C8_Witness ==
    /\ Done
    /\ Len(inputs) >= 2
    /\ inputs[1] = bGoName
    /\ inputs[2] = aGoName
    /\ unreadable = {}
    /\ Called("builtinEtags", 1)
    /\ Called("goTags", 2)
    /\ exitStatus = 0

----------------------------------------------------------------------------
(* C9: completeness of the syntax-tree extractor *)

\* the field names of a struct type, through directly nested struct types
RECURSIVE StructFieldIdents(_)
StructFieldIdents(it) ==
    UNION {Range(it.Fields[k].Names)
           \cup (IF it.Fields[k].Type.kind = "StructType"
                 THEN StructFieldIdents(it.Fields[k].Type) ELSE {})
           : k \in 1..Len(it.Fields)}

\* the identifiers a declaration declares at file scope
DeclIdents(d, mem) ==
    IF d.kind = "FuncDecl" THEN {d.Name}
    ELSE IF d.Tok = "TYPE"
    THEN UNION {{d.Specs[k].Name}
                \cup (IF d.Specs[k].Type.kind = "InterfaceType"
                      THEN UNION {Range(d.Specs[k].Type.Methods[j].Names)
                                  : j \in {j \in 1..Len(d.Specs[k].Type.Methods) :
                                              d.Specs[k].Type.Methods[j].Type.kind = "FuncType"}}
                      ELSE {})
                \cup (IF mem /\ d.Specs[k].Type.kind = "StructType"
                      THEN StructFieldIdents(d.Specs[k].Type) ELSE {})
                : k \in 1..Len(d.Specs)}
    ELSE IF d.Tok \in {"VAR", "CONST"}
    THEN UNION {Range(d.Specs[k].Names)
                \cup (IF mem /\ d.Specs[k].Type.kind = "StructType"
                      THEN StructFieldIdents(d.Specs[k].Type) ELSE {})
                : k \in 1..Len(d.Specs)}
    ELSE {}

\* the file-scope declared names of a parsed file
DeclaredIdents(f, mem) ==
    {f.Name} \cup UNION {DeclIdents(f.Decls[k], mem) : k \in 1..Len(f.Decls)}

\* the tree of input k with positions equal to byte offsets
TreeOf(k) == ParseTree(Content(inputs[k]), 0)

\* the tags of a section that point at the identifier d: same name, and the
\* pattern ends where d ends
TagsFor(tags, d) ==
    {t \in 1..Len(tags) :
        /\ tags[t].name = d.Name
        /\ tags[t].offset + Len(tags[t].pattern) = d.NamePos + Len(d.Name)}

----------------------------------------------------------------------------
(* C10: the pattern of an explicit tag ends with the tag name *)

\* C10: for every tag the core emits, in tree mode (makeTag) and in fallback
\* mode (builtinEtags) alike, the final bytes of the pattern are exactly the
\* bytes of the name.
C10_PatternEndsWithName ==
    Done =>
        LET secs == NativeSecs IN
        \A k \in NativeInputs :
            LET tags == TagsOf(SectionAt(secs, k)) IN
            \A t \in 1..Len(tags) :
                /\ tags[t].name # <<>>
                /\ IsSuffix(tags[t].name, tags[t].pattern)

C10_Witness ==
    /\ Done
    /\ Len(inputs) >= 2
    /\ inputs[1] = aGoName
    /\ inputs[2] = bGoName
    /\ unreadable = {}
    /\ Called("goTags", 1)
    /\ Called("builtinEtags", 2)
    /\ Len(TagsOf(SectionAt(NativeSecs, 1))) >= 7
    /\ Len(TagsOf(SectionAt(NativeSecs, 2))) = 5

----------------------------------------------------------------------------
(* C11: pattern and line number of a tree-mode tag *)

\* offset of the first byte of the physical line that holds offset p of text
PhysLineStart(text, p) ==
    LET nl == {i \in 1..p : text[i] = LF}
    IN IF nl = {} THEN 0 ELSE CHOOSE i \in nl : \A m \in nl : m <= i

\* 1-based number of the physical line that holds offset p of text
PhysLine(text, p) == 1 + Cardinality({i \in 1..p : text[i] = LF})

\* pattern, name and line of the tag of identifier d, as the rule of makeTag
\* states them on the bytes of the file
PatternNameLine(text, d) ==
    [pattern |-> SubSeq(text, PhysLineStart(text, d.NamePos) + 1, d.NamePos + Len(d.Name)),
     name    |-> d.Name,
     line    |-> PhysLine(text, d.NamePos)]

\* C11: in tree mode, for an identifier at byte offset p of length n, the tag's
\* pattern is exactly the source bytes from the start of p's physical line (the
\* byte after the previous LF, or byte 0) up to p+n, and the tag's line is the
\* identifier's 1-based source line number.
C11_PatternAndLine ==
    Done =>
        LET secs == NativeSecs IN
        \A k \in NativeInputs :
            (Readable(k) /\ ~ParseFails(k)) =>
                LET tags == TagsOf(SectionAt(secs, k))
                    text == Content(inputs[k])
                IN {[pattern |-> tags[t].pattern, name |-> tags[t].name,
                     line |-> tags[t].line] : t \in 1..Len(tags)}
                   = {PatternNameLine(text, d) : d \in DeclaredIdents(TreeOf(k), members)}

----------------------------------------------------------------------------
(* C12: the offset of a tag is the start of the identifier's physical line *)

\* C12: for every tag that carries a byte offset, the offset is the position
\* of the first byte of the physical line containing the defining identifier:
\* it is 0 or immediately follows an LF byte, it is not greater than the
\* identifier's own offset, and no LF lies between it and the identifier.
C12_OffsetIsLineStart ==
    Done =>
        LET secs == NativeSecs IN
        \A k \in NativeInputs :
            Readable(k) =>
                LET tags == TagsOf(SectionAt(secs, k))
                    text == Content(inputs[k])
                    offs == {t \in 1..Len(tags) : tags[t].offset # NoOffset}
                    decl == IF ParseFails(k) THEN {}
                            ELSE DeclaredIdents(TreeOf(k), members)
                IN /\ \A t \in offs :
                        /\ tags[t].offset <= Len(text)
                        /\ tags[t].offset = 0 \/ text[tags[t].offset] = LF
                        /\ \E d \in decl : t \in TagsFor(tags, d)
                   /\ \A d \in decl : \A t \in TagsFor(tags, d) :
                        /\ tags[t].offset <= d.NamePos
                        /\ \A i \in (tags[t].offset + 1)..d.NamePos : text[i] # LF

C12_Witness ==
    /\ Done
    /\ Len(inputs) >= 2
    /\ inputs[1] = cGoName
    /\ inputs[2] = aGoName
    /\ unreadable = {}
    /\ LET tags == TagsOf(SectionAt(NativeSecs, 2))
       IN \E t \in 1..Len(tags) :
             /\ tags[t].offset > 0
             /\ Len(tags[t].pattern) > Len(tags[t].name) + 1

----------------------------------------------------------------------------
(* C13: the pattern-based extractor *)

\* the lines etagsRe matches, stated on the shape of the line: a keyword at
\* column 0, for func optionally white space and a parenthesized receiver, then
\* white space, then a letter or digit
MatchesEtagsRe(l) ==
    \E kw \in Range(reKeywords) :
        /\ IsPrefix(kw, l)
        /\ \E a \in (Len(kw) + 1)..Len(l) : \E b \in (a + 1)..Len(l) :
              /\ \A i \in a..(b - 1) : l[i] \in reSpace
              /\ l[b] \in identCharSet
              /\ \/ a = Len(kw) + 1
                 \/ /\ kw = <<"f", "u", "n", "c">>
                    /\ \E j \in (Len(kw) + 1)..(a - 3) :
                          /\ \A i \in (Len(kw) + 1)..(j - 1) : l[i] \in reSpace
                          /\ l[j] = "("
                          /\ l[a - 1] = ")"
                          /\ \A i \in (j + 1)..(a - 2) : l[i] # ")"

\* C13: for text the parser rejects, a tag is produced for a line only if the
\* line begins at column 0 with one of package/func/type/var/const (func
\* optionally followed by a parenthesized receiver), then white space, then an
\* identifier of letters and digits; each matching line yields exactly one tag,
\* also when it declares several names, a non-matching line yields none, and no
\* fallback tag carries a byte offset.
C13_FallbackOneTagPerLine ==
    Done =>
        LET secs == NativeSecs IN
        \A k \in NativeInputs :
            (Readable(k) /\ ParseFails(k)) =>
                LET tags  == TagsOf(SectionAt(secs, k))
                    lines == SplitOn(Content(inputs[k]), LF)
                    hits  == {i \in 1..Len(lines) : MatchesEtagsRe(lines[i])}
                IN /\ Len(tags) = Cardinality(hits)
                   /\ \A t \in 1..Len(tags) :
                        /\ tags[t].line \in hits
                        /\ IsPrefix(tags[t].pattern, lines[tags[t].line])
                        /\ tags[t].name # <<>>
                        /\ \A i \in 1..Len(tags[t].name) : tags[t].name[i] \in identCharSet
                        /\ tags[t].offset = NoOffset
                        /\ \A u \in 1..Len(tags) : t < u => tags[t].line < tags[u].line

C13_Witness ==
    /\ Done
    /\ Len(inputs) >= 2
    /\ inputs[1] = aGoName
    /\ inputs[2] = bGoName
    /\ unreadable = {}
    /\ Called("builtinEtags", 2)
    /\ LET tags  == TagsOf(SectionAt(NativeSecs, 2))
           lines == SplitOn(bGoText, LF)
       IN /\ Len(lines) = 9
          /\ Len(tags) = 5
          /\ ~MatchesEtagsRe(lines[3])
          /\ MatchesEtagsRe(lines[2])
          /\ tags[3].line = 4
          /\ tags[3].name = <<"v", "4">>

----------------------------------------------------------------------------
(* C14: locality of the syntax-tree extractor *)

\* the identifiers declared inside the function bodies of a parsed file
LocalIdents(f) ==
    UNION {UNION {DeclIdents(f.Decls[k].Body[j], TRUE) : j \in 1..Len(f.Decls[k].Body)}
           : k \in {k \in 1..Len(f.Decls) : f.Decls[k].kind = "FuncDecl"}}

\* C14: in tree mode no tag is emitted for a declaration inside a function
\* body; every tag of the section points at a file-scope declaration or at a
\* member nested directly in a file-scope interface or struct declaration.
C14_NoLocalTags ==
    Done =>
        LET secs == NativeSecs IN
        \A k \in NativeInputs :
            (Readable(k) /\ ~ParseFails(k)) =>
                LET tags == TagsOf(SectionAt(secs, k))
                    decl == DeclaredIdents(TreeOf(k), members)
                IN /\ \A t \in 1..Len(tags) : \E d \in decl : t \in TagsFor(tags, d)
                   /\ \A d \in LocalIdents(TreeOf(k)) : TagsFor(tags, d) = {}

C14_Witness ==
    /\ Done
    /\ inputs = <<aGoName, cGoName>>
    /\ unreadable = {}
    /\ Called("goTags", 2)
    /\ LocalIdents(TreeOf(2)) # {}
    /\ LET tags == TagsOf(SectionAt(NativeSecs, 2))
       IN \E t \in 1..Len(tags) : tags[t].name = <<"m", "1">>

----------------------------------------------------------------------------
(* C15: idempotence *)

\* C15: running the core twice on the same filename sequence, with unchanged
\* file contents and unchanged delegate output, yields byte-identical output,
\* also when both runs happen in one process and share the global file set.
C15_Idempotent ==
    (Done /\ previous # NoRun /\ previous.stdout = (IF cmd = NoCmd THEN <<>> ELSE cmd.stdout))
        => output = previous.output

C15_Witness ==
    /\ Done
    /\ previous # NoRun
    /\ inputs = <<cGoName, tCName, aGoName>>
    /\ unreadable = {}
    /\ cmd # NoCmd
    /\ cmd.stdout = etagsSection
    /\ previous.stdout = etagsSection
    /\ Len(fset.files) = 4
    /\ fset.files[3].base > 1
    /\ Len(output) > Len(etagsSection) + Len(cGoText)

----------------------------------------------------------------------------
(* C16: the names come from the piped input exactly when the only name is "-" *)

\* names is what the lines of the byte string s are: every name followed by
\* LF or CR LF, the terminator of the last one optional when it is not empty
RECURSIVE LinesAre(_, _)
LinesAre(s, names) ==
    IF names = <<>> THEN s = <<>>
    ELSE LET n    == names[1]
             rest == SubSeq(s, Len(n) + 1, Len(s))
         IN /\ IsPrefix(n, s)
            /\ \A i \in 1..Len(n) : n[i] # LF
            /\ \/ Len(names) = 1 /\ n # <<>> /\ rest = <<>>
               \/ rest # <<>> /\ rest[1] = LF /\ LinesAre(Tail(rest), Tail(names))
               \/ /\ Len(rest) >= 2 /\ rest[1] = CR /\ rest[2] = LF
                  /\ LinesAre(Tail(Tail(rest)), Tail(names))

----------------------------------------------------------------------------
(* C17: bad invocations *)

\* C17: a bad invocation (malformed options, or no input filenames) ends the
\* run with exit status 2 and produces no output: the output file is neither
\* created nor truncated and no extractor or delegate is run; a successful run
\* ends with status 0.
C17_BadInvocation ==
    /\ (optsErr \/ (~help /\ ~version /\ inputFilenames = <<>>)) =>
           /\ pc \in {"main", "exited"}
           /\ pc = "exited" => exitStatus = 2
           /\ outFile = "untouched"
           /\ output = <<>>
           /\ calls = <<>>
           /\ cmd = NoCmd
    /\ (Done /\ (cmd = NoCmd \/ cmd.err = "nil")) => exitStatus = 0
    /\ (pc = "exited" /\ exitStatus = 2) =>
           (optsErr \/ (~help /\ ~version /\ inputFilenames = <<>>))

C17_Witness ==
    /\ pc = "exited"
    /\ ~optsErr
    /\ ~help
    /\ ~version
    /\ outname = "TAGS"
    /\ inputFilenames = <<>>
    /\ exitStatus = 2
    /\ outFile = "untouched"

----------------------------------------------------------------------------
(* C18: the form of the records the core writes *)

\* C18: every tag record the core itself writes has the form
\* LF pattern DEL name SOH line "," [offset]: the name and the line number are
\* always present, the size field of every header is the literal 0, and the
\* offset is present exactly for tree-mode tags and absent exactly for fallback
\* tags; the core never writes an implicit (name-less) tag.
C18_TagRecordForm ==
    Done =>
        LET secs == NativeSecs IN
        \A k \in NativeInputs :
            LET ls == SplitOn(SectionAt(secs, k), LF) IN
            /\ Len(ls) >= 2
            /\ ls[1] = <<>>
            /\ ls[2] = inputs[k] \o <<",", "0">>
            /\ Readable(k) =>
                  \A t \in 3..(Len(ls) - 1) :
                      LET l    == ls[t]
                          dels == {i \in 1..Len(l) : l[i] = DEL}
                          sohs == {i \in 1..Len(l) : l[i] = SOH}
                      IN /\ Cardinality(dels) = 1
                         /\ Cardinality(sohs) = 1
                         /\ LET d == CHOOSE i \in dels : TRUE
                                h == CHOOSE i \in sohs : TRUE
                                c == reSkipNot(l, h + 1, ",")
                            IN /\ d + 1 < h
                               /\ h + 1 < c
                               /\ c <= Len(l)
                               /\ \A i \in ((h + 1)..(c - 1)) \cup ((c + 1)..Len(l)) :
                                      l[i] \in Digits
                               /\ (c < Len(l)) <=> ~ParseFails(k)

C18_Witness ==
    /\ Done
    /\ inputs = <<bGoName, tCName, aGoName>>
    /\ unreadable = {}
    /\ Called("builtinEtags", 1)
    /\ Called("goTags", 3)
    /\ cmd # NoCmd
    /\ cmd.stdout = etagsSection
    /\ Len(SplitOn(SectionAt(NativeSecs, 1), LF)) = 8
    /\ Len(SplitOn(SectionAt(NativeSecs, 3), LF)) >= 10

----------------------------------------------------------------------------
(* C19: tags in source order *)

\* C19: within every section produced in tree mode the tags appear in the
\* order of their defining identifiers in the source text: the identifier byte
\* positions of consecutive tags are strictly increasing, and the package tag
\* is the first tag of the section.
C19_SourceOrder ==
    Done =>
        LET secs == NativeSecs IN
        \A k \in NativeInputs :
            (Readable(k) /\ ~ParseFails(k)) =>
                LET tags   == TagsOf(SectionAt(secs, k))
                    At(t)  == tags[t].offset + Len(tags[t].pattern) - Len(tags[t].name)
                IN /\ Len(tags) >= 1
                   /\ tags[1].name = TreeOf(k).Name.Name
                   /\ At(1) = TreeOf(k).Name.NamePos
                   /\ \A t \in 1..(Len(tags) - 1) : At(t) < At(t + 1)

C19_Witness ==
    /\ Done
    /\ members
    /\ inputs = <<aGoName, cGoName>>
    /\ unreadable = {}
    /\ LET ta == TagsOf(SectionAt(NativeSecs, 1))
           tc == TagsOf(SectionAt(NativeSecs, 2))
       IN /\ Len(ta) = 10
          /\ ta[4].name = <<"x">>
          /\ ta[5].name = <<"y">>
          /\ ta[6].name = <<"n">>
          /\ ta[7].name = <<"z">>
          /\ ta[10].name = <<"f", "1">>
          /\ Len(tc) = 12
          /\ tc[5].name = <<"s">>
          /\ tc[6].name = <<"f">>

----------------------------------------------------------------------------
(* C20: several tags on one physical line *)

\* C20: when several tagged identifiers lie on the same physical line, their
\* tags carry the same line number and the same offset, each its own
\* identifier's name, and the pattern of each earlier identifier is a proper
\* prefix of the pattern of each later one.
C20_SameLineTags ==
    Done =>
        LET secs == NativeSecs IN
        \A k \in NativeInputs :
            (Readable(k) /\ ~ParseFails(k)) =>
                LET tags == TagsOf(SectionAt(secs, k))
                    text == Content(inputs[k])
                    decl == DeclaredIdents(TreeOf(k), members)
                IN \A d \in decl : \A e \in decl :
                      (/\ d.NamePos < e.NamePos
                       /\ PhysLine(text, d.NamePos) = PhysLine(text, e.NamePos)) =>
                          \A t \in TagsFor(tags, d) : \A u \in TagsFor(tags, e) :
                              /\ tags[t].line = tags[u].line
                              /\ tags[t].offset = tags[u].offset
                              /\ tags[t].name = d.Name
                              /\ tags[u].name = e.Name
                              /\ IsPrefix(tags[t].pattern, tags[u].pattern)
                              /\ Len(tags[t].pattern) < Len(tags[u].pattern)

----------------------------------------------------------------------------
(* C21: one file at a time *)

\* the header of inputs[idx] has been written and its terminator has not
InSection == pc \in {"read", "parse", "extract", "terminator"}

\* C21: processing is strictly sequential: from the header of a native file to
\* its terminator the loop stays with that file (no other name is classified,
\* read or parsed, nothing is queued for the delegate and the delegate is not
\* run), the bytes written are appended and hold no header of another section,
\* and the file is left only by writing its terminator LF, so that header,
\* tags and terminator are contiguous in the output.
C21_StrictlySequential ==
    [][InSection =>
          /\ idx' = idx
          /\ unhandledFiles' = unhandledFiles
          /\ cmd' = cmd
          /\ IsPrefix(output, output')
          /\ \A i \in (Len(output) + 1)..Len(output') : output'[i] # FF
          /\ \A c \in (Len(calls) + 1)..Len(calls') : calls'[c].idx = idx
          /\ ~InSection' => /\ pc = "terminator"
                            /\ pc' = "loop"
                            /\ output' = output \o <<LF>>
                            /\ Framed(SectionsOf(output')[NativeRank(idx)], inputs[idx])]_vars

----------------------------------------------------------------------------
(* C22: the file-position table *)

\* the bytes computeTags writes for the native input k when it is the only
\* input of a fresh process
AloneSection(k) == SectionOf(inputs[k], NewFileSet, unreadable, members).bytes

\* every native section of the output is what its file yields alone
SectionsIndependent ==
    LET secs == NativeSecs IN
    \A k \in NativeInputs : <<FF>> \o SectionAt(secs, k) = AloneSection(k)

\* C22: no mutable state is shared across files: the position table holds a
\* file only while that file is being extracted (it is private to the
\* extraction and discarded afterwards), and so the bytes of a file's section
\* depend only on the file's name, its content and the member-tagging flag,
\* never on the files processed before it.
C22_NoSharedState ==
    /\ fset.files # <<>> =>
          /\ pc \in {"extract", "terminator"}
          /\ Len(fset.files) = 1
          /\ fset.files[1].name = inputs[idx]
    /\ Done => SectionsIndependent

----------------------------------------------------------------------------
(* C23: the member-tagging flag *)

\* the struct field names of a parsed file that structTypeTags can reach: the
\* fields of the struct types of type and var declarations, through directly
\* nested struct types
FieldIdents(f) ==
    UNION {UNION {IF f.Decls[j].Specs[k].Type.kind = "StructType"
                  THEN StructFieldIdents(f.Decls[j].Specs[k].Type) ELSE {}
                  : k \in 1..Len(f.Decls[j].Specs)}
           : j \in {j \in 1..Len(f.Decls) :
                       f.Decls[j].kind = "GenDecl" /\ f.Decls[j].Tok \in {"TYPE", "VAR"}}}

\* tag record t points at one of the identifiers ds
TagOfAny(t, ds) ==
    \E d \in ds : /\ t.name = d.Name
                  /\ t.offset + Len(t.pattern) = d.NamePos + Len(d.Name)

\* C23: with member tagging disabled the tree extractor writes no tag for any
\* struct field, and the tags it writes are the tags it writes with member
\* tagging enabled minus the field tags, unchanged and in the same order;
\* with it enabled every field name reachable through directly nested struct
\* types has exactly one tag, and the other tags are as many as without it.
C23_MembersToggle ==
    Done =>
        LET secs == NativeSecs IN
        \A k \in NativeInputs :
            (Readable(k) /\ ~ParseFails(k)) =>
                LET tags   == TagsOf(SectionAt(secs, k))
                    tree   == TreeOf(k)
                    fields == FieldIdents(tree)
                    others == DeclaredIdents(tree, FALSE)
                    IsField(t) == TagOfAny(t, fields)
                    NotField(t) == ~TagOfAny(t, fields)
                IN IF members
                   THEN /\ \A d \in fields : Cardinality(TagsFor(tags, d)) = 1
                        /\ Len(SelectSeq(tags, NotField)) = Cardinality(others)
                        /\ \A d \in others : Cardinality(TagsFor(tags, d)) = 1
                   ELSE /\ \A t \in 1..Len(tags) : ~IsField(tags[t])
                        /\ tags = SelectSeq(
                              TagsOf(Tail(SectionOf(inputs[k], NewFileSet, {}, TRUE).bytes)),
                              NotField)

C23_Witness ==
    /\ Done
    /\ ~members
    /\ inputs = <<aGoName, cGoName>>
    /\ unreadable = {}
    /\ Cardinality(FieldIdents(TreeOf(1))) = 5
    /\ Cardinality(FieldIdents(TreeOf(2))) = 1
    /\ Len(TagsOf(SectionAt(NativeSecs, 1))) = 5
    /\ Len(TagsOf(SectionAt(NativeSecs, 2))) = 11
    /\ Len(TagsOf(Tail(SectionOf(aGoName, NewFileSet, {}, TRUE).bytes))) = 10

----------------------------------------------------------------------------
(* C24: the line number of a fallback tag *)

\* the tag records builtinEtags writes for text
FallbackTags(fn, text) == TagsOf(HeaderLine(fn) \o builtinEtags(text) \o <<LF>>)

\* the pattern pat starts the physical line number n of text
StartsLine(text, pat, n) ==
    \E p \in 0..Len(text) :
        /\ p = 0 \/ text[p] = LF
        /\ PhysLine(text, p) = n
        /\ p + Len(pat) <= Len(text)
        /\ SubSeq(text, p + 1, p + Len(pat)) = pat

\* C24: in fallback mode the line number of a tag is the 1-based index of the
\* matching line in the file (the number of LF bytes before the line, plus
\* one), and it is the line number tree mode writes for an identifier on that
\* line.
C24_FallbackLineNumber ==
    Done =>
        LET secs == NativeSecs IN
        \A k \in NativeInputs :
            Readable(k) =>
                LET text == Content(inputs[k])
                    tags == TagsOf(SectionAt(secs, k))
                IN IF ParseFails(k)
                   THEN \A t \in 1..Len(tags) :
                            StartsLine(text, tags[t].pattern, tags[t].line)
                   ELSE LET fb == FallbackTags(inputs[k], text) IN
                        \A t \in 1..Len(tags) : \A u \in 1..Len(fb) :
                            /\ StartsLine(text, fb[u].pattern, fb[u].line)
                            /\ PhysLine(text, tags[t].offset) = fb[u].line
                                  => tags[t].line = fb[u].line

----------------------------------------------------------------------------
(* C25: what the delegate is given *)

NotNative(fn) == ~IsNative(fn)

\* C25: the batch handed to the delegate is exactly the subsequence of the
\* input names whose extension is not ".go", in input order, duplicates kept
\* and no native name in it; its standard input is these names separated by
\* LF, and its arguments are -o - -, followed by --no-members exactly when
\* member tagging is disabled.
C25_DelegateBatch ==
    cmd # NoCmd =>
        LET batch == SelectSeq(inputs, NotNative) IN
        /\ batch # <<>>
        /\ unhandledFiles = batch
        /\ SplitOn(cmd.stdin, LF) = batch
        /\ Len(cmd.stdin) = Len(Flatten(batch)) + Len(batch) - 1
        /\ cmd.path = systemEtagsCommand
        /\ SubSeq(cmd.args, 1, 3) = <<"-o", "-", "-">>
        /\ IF members THEN Len(cmd.args) = 3
           ELSE cmd.args = <<"-o", "-", "-", "--no-members">>

C25_Witness ==
    /\ cmd # NoCmd
    /\ cmd.state = "running"
    /\ ~members
    /\ inputs = <<tCName, aGoName, tCName>>
    /\ cmd.stdin = tCName \o <<LF>> \o tCName
    /\ Len(cmd.args) = 4

----------------------------------------------------------------------------
(* C26: the delegate's standard error *)

\* the diagnostics written by log.Print
Printed == LET IsPrint(m) == m.msg = "Print" IN SelectSeq(logged, IsPrint)

\* C26: output on the delegate's standard error is not fatal: when the
\* delegate exits with status 0, the lines of its standard error are logged
\* as diagnostics, one per line and in order (also with -q), and nothing else
\* comes of them: the output is the native sections followed by the
\* delegate's standard output, with no byte of the standard error in it, and
\* the exit status is 0.
C26_StderrNonFatal ==
    (Done /\ cmd # NoCmd /\ cmd.err = "nil") =>
        /\ exitStatus = 0
        /\ output = NativeOnlyOutput \o cmd.stdout
        /\ cmd.stderr = etagsStderr
        /\ IF cmd.stderr = <<>> THEN Printed = <<>>
           ELSE /\ Join([i \in 1..Len(Printed) |-> Printed[i].arg]) = cmd.stderr
                /\ \A i \in 1..Len(Printed) : \A j \in 1..Len(Printed[i].arg) :
                      Printed[i].arg[j] # LF

C26_Witness ==
    /\ Done
    /\ cmd # NoCmd
    /\ cmd.err = "nil"
    /\ quiet
    /\ inputs = <<aGoName, tCName>>
    /\ cmd.stderr = <<"w", LF, "x">>
    /\ cmd.stdout = etagsSection
    /\ Len(Printed) = 2
    /\ exitStatus = 0

----------------------------------------------------------------------------
(* C27: the delegate call is synchronous, and the run terminates with it *)

\* the delegate has been started and has not exited
DelegateRunning == cmd # NoCmd /\ cmd.state = "running"

\* every input name has been classified exactly once
EachProcessedOnce == \A k \in 1..Len(inputs) : CallCount("Ext", k) = 1

\* C27: the delegate call is synchronous: while the subprocess has not exited
\* the run waits in cmd.Run, is not complete, and no byte is written to the
\* output; the run terminates if the delegate terminates, having processed
\* every input name exactly once, and if the delegate never exits the run
\* never completes.
C27_SynchronousDelegate ==
    /\ [](DelegateRunning => (pc = "run" /\ ~Done /\ output = NativePart))
    /\ [][(cmd # NoCmd /\ output' # output) => cmd.state = "exited"]_vars
    /\ [](Done => EachProcessedOnce)
    /\ (<>[]DelegateRunning) \/ (<>Done)
    /\ (<>[]DelegateRunning) => []~Done

C27_Witness ==
    /\ Done
    /\ inputs = <<tCName, aGoName, tCName>>
    /\ cmd # NoCmd
    /\ cmd.state = "exited"
    /\ cmd.stdout = etagsSection
    /\ EachProcessedOnce
    /\ Len(output) > Len(etagsSection)

====
